---- MODULE Spec2Model ----
(***************************************************************************)
(* URL shortener backend: the link registry, the short-code generator, the *)
(* redirect resolver and the click recorder, modelled as concurrent        *)
(* request handlers over one MongoDB database.  Every `await` on a         *)
(* database call is one atomic step; the code between two awaits runs      *)
(* within the step that resumes it (Node.js runs a handler's continuation  *)
(* to its next await without interleaving).                                *)
(*                                                                         *)
(* Spec       : the controller of src/unnamed/part_000 (fire-and-forget    *)
(*              click tracking, Promise.all deletes).                      *)
(* SpecLegacy : the controller of                                          *)
(*              src/backend/src/controllers/url.controller.js (awaited     *)
(*              click tracking, sequential deletes).                       *)
(* Both use src/backend/src/utils/short.js and the Mongoose models of      *)
(* src/unnamed/part_004.                                                   *)
(*                                                                         *)
(* SpecRegistry  : the link registry alone.                                *)
(* SpecOwnership : two accounts and anonymous links.                       *)
(* SpecReport    : the analytics report over given click histories.        *)
(* SpecAnalytics : analytics against concurrent redirects and deletes.     *)
(* SpecGenerator : the generators of utils/short.js and utils/short1.js    *)
(*                 against registries with taken codes.                    *)
(***************************************************************************)
EXTENDS Integers, FiniteSets, Sequences, TLC

VARIABLES
    urls,       \* the Url collection: _id -> document
    clicks,     \* the Click collection: a set of documents
    users,      \* the User collection: user id -> denormalised counters
    now,        \* the wall clock (new Date(), Date.now())
    req,        \* the requests in flight: slot -> handler state
    started,    \* number of requests received so far
    nextId      \* source of fresh ObjectIds

vars == <<urls, clicks, users, now, req, started, nextId>>

---------------------------------------------------------------------------
(* Bounds of the model *)

MaxRequests == 4
MaxTime == 2
NumSlots == 2
CodesPerLength == 1

Slots == 1..NumSlots

---------------------------------------------------------------------------
(* Values *)

Users == {"u1"}
NoUser == "anonymous"
\* A second account, which owns no link; every account has a User document.
OtherUser == "u2"
Accounts == Users \cup {OtherUser}

\* `null` of a Date field (expiresAt, lastClickedAt)
NoDate == -1

\* A short code or alias: its length and which string of that length it is.
Code(len, k) == [len |-> len, id |-> k]
NoCode == Code(0, 0)

\* generateShortCode(length = 6)
DefaultLength == 6
\* const maxAttempts = 10
maxAttempts == 10

\* nanoid(length) with '_' and '-' replaced: an alphanumeric string of the
\* requested length.
GenPool(len) == {Code(len, k) : k \in 1..CodesPerLength}

\* normalizeUrl prepends https:// to a destination without a scheme;
\* isValidUrl accepts what parses as an http(s) URL.
normalizeUrl(u) == IF u = "a.example" THEN "https://a.example" ELSE u
isValidUrl(u) == u \in {"https://a.example", "https://b.example"}

\* User-agent strings, by the lower-case tokens they contain; the empty
\* header is the empty set.
UABrowser == {"mozilla", "chrome"}
UABot == {"mozilla", "googlebot", "bot"}
UAEmpty == {}
BotPatterns == {"googlebot", "bingbot", "slurp", "duckduckbot", "baiduspider",
                "yandexbot", "facebookexternalhit", "twitterbot", "linkedinbot",
                "whatsapp", "telegram", "crawler", "spider", "bot", "headless",
                "phantom", "scraper"}
isBot(ua) == IF ua = {} THEN FALSE ELSE ua \cap BotPatterns # {}

\* Client addresses as getClientIP returns them; Node reports an IPv4 peer
\* on a dual-stack socket as "::ffff:a.b.c.d", which neither regex of the
\* Click schema accepts.
ipAddressValid(ip) == ip = "203.0.113.7"

\* getGeolocation(ip).country: 'Local' for a loopback or private address,
\* 'Unknown' for any other (the lookup is a placeholder).
getGeolocation(ip) == IF ip \in {"127.0.0.1", "::1"} THEN "Local" ELSE "Unknown"

\* parseDevice(ua).type
UAMobile == {"mozilla", "mobile", "safari"}
parseDevice(ua) ==
    IF ua \cap {"mobile", "android", "iphone"} # {} THEN "mobile"
    ELSE IF ua \cap {"tablet", "ipad"} # {} THEN "tablet"
    ELSE "desktop"

Some(x) == <<x>>
None == <<>>

Idle == [kind |-> "idle", pc |-> "idle", user |-> NoUser, dest |-> "",
         alias |-> NoCode, exp |-> NoDate, code |-> NoCode, id |-> 0,
         ua |-> {}, ip |-> "", active |-> "undefined", doc |-> None,
         status |-> 0, err |-> "", attempts |-> 0, length |-> 0,
         pending |-> {}, failed |-> FALSE, at |-> 0, setExp |-> FALSE,
         had |-> {}, query |-> <<>>, start |-> 0, end |-> 0, report |-> <<>>,
         cand |-> NoCode, looked |-> 0]

---------------------------------------------------------------------------
(* The database *)

\* unique: true on urlSchema.shortCode: an insert is rejected with a
\* duplicate-key error when a stored document has the same shortCode.
NoUniqueIndex(code) == FALSE
UniqueAliasOnly(code) == \E l \in DOMAIN urls : urls[l].customAlias = code
DuplicateKey(code) == \E l \in DOMAIN urls : urls[l].shortCode = code

\* Schema validation of a new Url document.
UrlValid(d) ==
    /\ d.shortCode.len >= 3
    /\ d.shortCode.len <= 20
    /\ (d.customAlias # NoCode => d.customAlias.len >= 3 /\ d.customAlias.len <= 50)

Init ==
    /\ urls = <<>>
    /\ clicks = {}
    /\ users = [u \in Accounts |-> [urlsCount |-> 0, totalClicks |-> 0]]
    /\ now = 0
    /\ req = [r \in Slots |-> Idle]
    /\ started = 0
    /\ nextId = 1

Tick ==
    /\ now < MaxTime
    /\ now' = now + 1
    /\ UNCHANGED <<urls, clicks, users, req, started, nextId>>

\* A slot takes the next request once its previous request is over: the
\* response has been sent and every task the handler started has settled.
Free(r) ==
    /\ req[r].pc \in {"idle", "done"}
    /\ started < MaxRequests

\* res.status(code).json(...): the handler returns.
Respond(q, code) == [q EXCEPT !.status = code, !.pc = "done"]
\* The error middleware's status for a rejection, by the error taxonomy:
\* validation errors and conflicts are answered 400, anything else 500.
ErrorStatus(name) ==
    IF name \in {"ValidationError", "E11000",
                 "Expiration date must be in the future"}
    THEN 400 ELSE 500

\* A rejection reaches asyncHandler, which hands it to the error middleware.
Throw(q, name) == [q EXCEPT !.status = ErrorStatus(name), !.err = name, !.pc = "done"]

---------------------------------------------------------------------------
(* createShortUrl *)

\* `if (expiresAt) { if (new Date(expiresAt) <= new Date()) return 400 }`,
\* then the document is built and handed to Url.create.
ValidateExpiration(q, code) ==
    IF q.exp # NoDate /\ q.exp <= now
    THEN Respond(q, 400)
    ELSE [q EXCEPT !.code = code, !.pc = "insert"]

\* `customAlias ? customAlias.trim() : await generateShortCode()`
AllocateGeneratedCode(q) ==
    [q EXCEPT !.pc = "generate", !.attempts = 0, !.length = DefaultLength]
AllocateCode(q) ==
    IF q.alias # NoCode
    THEN [q EXCEPT !.code = q.alias, !.pc = "validateAlias"]
    ELSE [q EXCEPT !.pc = "generate", !.attempts = 0, !.length = DefaultLength]

\* The links a user holds for a destination; a request records the ones
\* that were stored when it was received (field `had`).
Held(user, dest) ==
    {l \in DOMAIN urls : urls[l].originalUrl = dest /\ urls[l].user = user}

CreateStart(r, user, raw, alias, exp) ==
    /\ Free(r)
    /\ started' = started + 1
    /\ LET q == [Idle EXCEPT !.kind = "create", !.user = user,
                             !.dest = normalizeUrl(raw), !.alias = alias,
                             !.exp = exp, !.had = Held(user, normalizeUrl(raw))]
       IN req' = [req EXCEPT ![r] =
                    IF raw = "" THEN Respond(q, 400)
                    ELSE IF ~isValidUrl(normalizeUrl(raw)) THEN Respond(q, 400)
                    ELSE IF user # NoUser THEN [q EXCEPT !.pc = "existing"]
                    ELSE AllocateCode(q)]
    /\ UNCHANGED <<urls, clicks, users, now, nextId>>

\* Url.findOne({ originalUrl: normalizedUrl, user: userId })
CreateFindExisting(r) ==
    /\ req[r].kind = "create"
    /\ req[r].pc = "existing"
    /\ LET q == req[r]
           hit == {l \in DOMAIN urls :
                     urls[l].originalUrl = q.dest /\ urls[l].user = q.user}
       IN req' = [req EXCEPT ![r] =
                    IF hit # {}
                    THEN [Respond(q, 200) EXCEPT !.id = CHOOSE l \in hit : TRUE]
                    ELSE AllocateCode(q)]
    /\ UNCHANGED <<urls, clicks, users, now, started, nextId>>

\* One iteration of the loop of generateShortCode: a fresh candidate of
\* the current length and Url.findOne({ shortCode }).  The request keeps
\* the last candidate (`cand`) and the number of lookups made (`looked`).
CreateGenerate(r) ==
    /\ req[r].kind = "create"
    /\ req[r].pc = "generate"
    /\ \E shortCode \in GenPool(req[r].length) :
         LET q == [req[r] EXCEPT !.cand = shortCode, !.looked = @ + 1]
             existingUrl == \E l \in DOMAIN urls : urls[l].shortCode = shortCode
             attempts == q.attempts + 1
         IN req' = [req EXCEPT ![r] =
                      IF ~existingUrl THEN ValidateExpiration(q, shortCode)
                      ELSE IF attempts < maxAttempts
                      THEN [q EXCEPT !.attempts = attempts, !.length = q.length + 1]
                      ELSE Throw([q EXCEPT !.attempts = attempts],
                                 "Unable to generate unique short code")]
    /\ UNCHANGED <<urls, clicks, users, now, started, nextId>>

\* /^[a-zA-Z0-9_-]+$/ of validateCustomAlias and of the schema
aliasRegex(c) == c.id # 102
\* alias.toLowerCase()
KeepCase(c) == c
toLowerCase(c) == IF c = Code(5, 101) THEN Code(5, 100) ELSE c
\* 'admin' stands for the reserved words of the list
reservedWords == {Code(5, 100)}

\* validateCustomAlias(alias) of utils/short.js
validateCustomAlias(alias) ==
    IF alias = NoCode THEN "ok"
    ELSE IF ~aliasRegex(alias) THEN "format"
    ELSE IF alias.len < 3 THEN "short"
    ELSE IF alias.len > 50 THEN "long"
    ELSE IF \E l \in DOMAIN urls :
              urls[l].shortCode = alias \/ urls[l].customAlias = alias
    THEN "taken"
    ELSE IF toLowerCase(alias) \in reservedWords THEN "reserved"
    ELSE "ok"

CreateValidateAlias(r) ==
    /\ req[r].kind = "create"
    /\ req[r].pc = "validateAlias"
    /\ LET q == req[r]
           v == validateCustomAlias(q.code)
       IN req' = [req EXCEPT ![r] =
                    IF v # "ok" THEN [Respond(q, 400) EXCEPT !.err = v]
                    ELSE ValidateExpiration(q, q.code)]
    /\ UNCHANGED <<urls, clicks, users, now, started, nextId>>

\* Url.create(urlData): schema validation, then the insert under the
\* unique index of shortCode.
CreateInsert(r) ==
    /\ req[r].kind = "create"
    /\ req[r].pc = "insert"
    /\ LET q == req[r]
           d == [shortCode |-> q.code, customAlias |-> q.alias,
                 user |-> q.user, originalUrl |-> q.dest, clicks |-> 0,
                 isActive |-> TRUE, expiresAt |-> q.exp,
                 lastClickedAt |-> NoDate, createdAt |-> now]
       IN IF ~UrlValid(d)
          THEN /\ req' = [req EXCEPT ![r] = Throw(q, "ValidationError")]
               /\ UNCHANGED <<urls, nextId>>
          ELSE IF DuplicateKey(q.code)
          THEN /\ req' = [req EXCEPT ![r] = Throw(q, "E11000")]
               /\ UNCHANGED <<urls, nextId>>
          ELSE /\ urls' = (nextId :> d) @@ urls
               /\ nextId' = nextId + 1
               /\ req' = [req EXCEPT ![r] =
                            IF q.user # NoUser
                            THEN [q EXCEPT !.id = nextId, !.pc = "urlsCount"]
                            ELSE [Respond(q, 201) EXCEPT !.id = nextId]]
    /\ UNCHANGED <<clicks, users, now, started>>

\* User.findByIdAndUpdate(userId, { $inc: { urlsCount: 1 } })
CreateIncUrlsCount(r) ==
    /\ req[r].kind = "create"
    /\ req[r].pc = "urlsCount"
    /\ users' = [users EXCEPT ![req[r].user].urlsCount = @ + 1]
    /\ req' = [req EXCEPT ![r] = Respond(req[r], 201)]
    /\ UNCHANGED <<urls, clicks, now, started, nextId>>

createShortUrl(r, owners, raws, aliases, exps) ==
    \/ \E user \in owners, raw \in raws, alias \in aliases, exp \in exps :
         CreateStart(r, user, raw, alias, exp)
    \/ CreateFindExisting(r)
    \/ CreateGenerate(r)
    \/ CreateValidateAlias(r)
    \/ CreateInsert(r)
    \/ CreateIncUrlsCount(r)

---------------------------------------------------------------------------
(* generateShortCode of utils/short1.js *)

\* generateShortCode(length = 8)
DefaultLength1 == 8

\* nanoid(length): a string of the requested length over the URL-safe
\* alphabet, which includes '_' and '-' (string 200 of each length
\* contains one of them).
nanoid(len) == GenPool(len) \cup {Code(len, 200)}

\* Url.findOne({ $or: [{ shortCode }, { customAlias: shortCode }] })
findOneByAlias(code) ==
    \E l \in DOMAIN urls : urls[l].customAlias = code
findOneByCodeOrAlias(code) ==
    \E l \in DOMAIN urls : urls[l].shortCode = code \/ urls[l].customAlias = code

\* A call of generateShortCode() with the default length.
Generate1Start(r) ==
    /\ Free(r)
    /\ started' = started + 1
    /\ req' = [req EXCEPT ![r] = [Idle EXCEPT !.kind = "generate",
                                              !.length = DefaultLength1,
                                              !.pc = "nanoid"]]
    /\ UNCHANGED <<urls, clicks, users, now, nextId>>

\* One iteration of the do-while loop: a candidate, `attempts++`, the
\* throw once attempts has reached maxAttempts, otherwise the lookup and
\* the break when nothing was found.
Generate1Attempt(r) ==
    /\ req[r].kind = "generate"
    /\ req[r].pc = "nanoid"
    /\ \E shortCode \in nanoid(req[r].length) :
         LET q == [req[r] EXCEPT !.cand = shortCode, !.attempts = @ + 1]
             a == [q EXCEPT !.looked = @ + 1]
         IN req' = [req EXCEPT ![r] =
                      IF q.attempts >= maxAttempts
                      THEN Throw(q, "Failed to generate unique short code")
                      ELSE IF ~findOneByCodeOrAlias(shortCode)
                      THEN [a EXCEPT !.code = shortCode, !.pc = "done"]
                      ELSE a]
    /\ UNCHANGED <<urls, clicks, users, now, started, nextId>>

generateShortCode1(r) ==
    \/ Generate1Start(r)
    \/ Generate1Attempt(r)

---------------------------------------------------------------------------
(* redirectUrl and trackClick *)

\* Url.findOne({ $or: [{ shortCode }, { customAlias: shortCode }], isActive: true })
FindAnyState(code) ==
    {l \in DOMAIN urls : urls[l].shortCode = code \/ urls[l].customAlias = code}
FindActive(code) ==
    {l \in DOMAIN urls :
        /\ urls[l].shortCode = code \/ urls[l].customAlias = code
        /\ urls[l].isActive}

\* urlSchema.methods.isExpired
NeverExpired(d, t) == FALSE
isExpired(d, t) == IF d.expiresAt = NoDate THEN FALSE ELSE t > d.expiresAt

\* The writes trackClick issues with Promise.all; none for a bot.
TrackEverything(d, ua) ==
    {"click", "clicks"} \cup (IF d.user # NoUser THEN {"totalClicks"} ELSE {})
TrackOps(d, ua) ==
    IF isBot(ua) THEN {}
    ELSE {"click", "clicks"} \cup (IF d.user # NoUser THEN {"totalClicks"} ELSE {})

RedirectStart(r, code, ua, ip) ==
    /\ Free(r)
    /\ started' = started + 1
    /\ req' = [req EXCEPT ![r] = [Idle EXCEPT !.kind = "redirect", !.code = code,
                                              !.ua = ua, !.ip = ip, !.pc = "find"]]
    /\ UNCHANGED <<urls, clicks, users, now, nextId>>

\* The lookup and everything up to res.redirect: the expiry check, the
\* synchronous part of trackClick (the promise is not awaited) and the
\* response.
RedirectFind(r) ==
    /\ req[r].kind = "redirect"
    /\ req[r].pc = "find"
    /\ LET q == req[r] IN
         IF FindActive(q.code) = {}
         THEN req' = [req EXCEPT ![r] = Respond(q, 404)]
         ELSE \E l \in FindActive(q.code) :
                LET d == urls[l]
                    ops == TrackOps(d, q.ua)
                    f == [q EXCEPT !.id = l, !.doc = Some(d), !.at = now]
                IN req' = [req EXCEPT ![r] =
                             IF isExpired(d, now) THEN Respond(f, 410)
                             ELSE IF ops = {} THEN Respond(f, 301)
                             ELSE [f EXCEPT !.status = 301, !.pending = ops,
                                            !.pc = "track"]]
    /\ UNCHANGED <<urls, clicks, users, now, started, nextId>>

\* One of the promises of a Promise.all has settled; the handler resumes
\* when the last one has.
Settle(q, op, ok) ==
    LET left == q.pending \ {op}
    IN [q EXCEPT !.pending = left,
                 !.failed = q.failed \/ ~ok,
                 !.pc = IF left = {} THEN "done" ELSE q.pc]

\* Validation of a new Click document: ipAddress and userAgent are
\* required, ipAddress must match one of the patterns.
ClickValid(ua, ip) == ua # {} /\ ipAddressValid(ip)

\* Click.create(clickData)
TrackClickCreate(r) ==
    /\ req[r].kind = "redirect"
    /\ req[r].pc = "track"
    /\ "click" \in req[r].pending
    /\ LET q == req[r] IN
         IF ClickValid(q.ua, q.ip)
         THEN /\ clicks' = clicks \cup {[id |-> nextId, url |-> q.id,
                                        timestamp |-> q.at, ipAddress |-> q.ip,
                                        country |-> getGeolocation(q.ip),
                                        device |-> parseDevice(q.ua)]}
              /\ nextId' = nextId + 1
              /\ req' = [req EXCEPT ![r] = Settle(q, "click", TRUE)]
         ELSE /\ req' = [req EXCEPT ![r] = Settle(q, "click", FALSE)]
              /\ UNCHANGED <<clicks, nextId>>
    /\ UNCHANGED <<urls, users, now, started>>

\* url.incrementClicks(): `this.clicks += 1; this.lastClickedAt = new Date();
\* this.save()` on the document the handler loaded: the save sets the two
\* modified paths to the values computed in the process.
incrementClicks(l, d, t) ==
    [urls EXCEPT ![l].clicks = d.clicks + 1, ![l].lastClickedAt = t]

TrackIncrementClicks(r) ==
    /\ req[r].kind = "redirect"
    /\ req[r].pc = "track"
    /\ "clicks" \in req[r].pending
    /\ LET q == req[r] IN
         IF q.id \in DOMAIN urls
         THEN /\ urls' = incrementClicks(q.id, q.doc[1], q.at)
              /\ req' = [req EXCEPT ![r] = Settle(q, "clicks", TRUE)]
         ELSE /\ req' = [req EXCEPT ![r] = Settle(q, "clicks", FALSE)]
              /\ UNCHANGED urls
    /\ UNCHANGED <<clicks, users, now, started, nextId>>

\* User.findByIdAndUpdate(url.user, { $inc: { totalClicks: 1 } })
TrackIncTotalClicks(r) ==
    /\ req[r].kind = "redirect"
    /\ req[r].pc = "track"
    /\ "totalClicks" \in req[r].pending
    /\ users' = [users EXCEPT ![req[r].doc[1].user].totalClicks = @ + 1]
    /\ req' = [req EXCEPT ![r] = Settle(req[r], "totalClicks", TRUE)]
    /\ UNCHANGED <<urls, clicks, now, started, nextId>>

---------------------------------------------------------------------------
(* deleteUrl *)

\* Url.findOne({ _id: urlId, user: userId })
findById(id, user) ==
    IF id \in DOMAIN urls THEN Some(urls[id]) ELSE None
findUrlForUser(id, user) ==
    IF id \in DOMAIN urls /\ urls[id].user = user THEN Some(urls[id]) ELSE None

DeleteStart(r, id, user) ==
    /\ Free(r)
    /\ started' = started + 1
    /\ req' = [req EXCEPT ![r] = [Idle EXCEPT !.kind = "delete", !.id = id,
                                              !.user = user, !.pc = "find"]]
    /\ UNCHANGED <<urls, clicks, users, now, nextId>>

DeleteFind(r) ==
    /\ req[r].kind = "delete"
    /\ req[r].pc = "find"
    /\ LET q == req[r]
           url == findUrlForUser(q.id, q.user)
       IN req' = [req EXCEPT ![r] =
                    IF url = None THEN Respond(q, 404)
                    ELSE [q EXCEPT !.doc = url, !.pc = "delete",
                                   !.pending = {"clicks", "url", "user"}]]
    /\ UNCHANGED <<urls, clicks, users, now, started, nextId>>

\* The handler resumes after the Promise.all and answers 200.
Deleted(q, op) ==
    LET s == Settle(q, op, TRUE)
    IN IF s.pending = {} THEN Respond(s, 200) ELSE s

\* Click.deleteMany({ url: url._id })
DeleteClicks(r) ==
    /\ req[r].kind = "delete"
    /\ req[r].pc = "delete"
    /\ "clicks" \in req[r].pending
    /\ clicks' = {c \in clicks : c.url # req[r].id}
    /\ req' = [req EXCEPT ![r] = Deleted(req[r], "clicks")]
    /\ UNCHANGED <<urls, users, now, started, nextId>>

\* Url.findByIdAndDelete(url._id)
DeleteUrl(r) ==
    /\ req[r].kind = "delete"
    /\ req[r].pc = "delete"
    /\ "url" \in req[r].pending
    /\ urls' = [l \in DOMAIN urls \ {req[r].id} |-> urls[l]]
    /\ req' = [req EXCEPT ![r] = Deleted(req[r], "url")]
    /\ UNCHANGED <<clicks, users, now, started, nextId>>

\* User.findByIdAndUpdate(req.user.id,
\*     { $inc: { urlsCount: -1, totalClicks: -url.clicks } })
DeleteDecUser(r) ==
    /\ req[r].kind = "delete"
    /\ req[r].pc = "delete"
    /\ "user" \in req[r].pending
    /\ users' = [users EXCEPT
                   ![req[r].user].urlsCount = @ - 1,
                   ![req[r].user].totalClicks = @ - req[r].doc[1].clicks]
    /\ req' = [req EXCEPT ![r] = Deleted(req[r], "user")]
    /\ UNCHANGED <<urls, clicks, now, started, nextId>>

---------------------------------------------------------------------------
(* updateUrl *)

UpdateStart(r, id, user, active, setExp, exp) ==
    /\ Free(r)
    /\ started' = started + 1
    /\ req' = [req EXCEPT ![r] = [Idle EXCEPT !.kind = "update", !.id = id,
                                              !.user = user, !.active = active,
                                              !.setExp = setExp, !.exp = exp,
                                              !.pc = "find"]]
    /\ UNCHANGED <<urls, clicks, users, now, nextId>>

\* The allow-listed fields of the body are applied to the loaded document;
\* an expiration that is not in the future throws.
UpdateFind(r) ==
    /\ req[r].kind = "update"
    /\ req[r].pc = "find"
    /\ LET q == req[r]
           url == findUrlForUser(q.id, q.user)
       IN req' = [req EXCEPT ![r] =
                    IF url = None THEN Respond(q, 404)
                    ELSE IF q.setExp /\ q.exp # NoDate /\ q.exp <= now
                    THEN Throw(q, "Expiration date must be in the future")
                    ELSE [q EXCEPT !.doc = url, !.pc = "save"]]
    /\ UNCHANGED <<urls, clicks, users, now, started, nextId>>

\* url.save(): the paths whose value changed are written; a document that
\* is gone makes the save fail.
UpdateOverwrite(r) ==
    /\ req[r].kind = "update"
    /\ req[r].pc = "save"
    /\ LET q == req[r]
           d == q.doc[1]
           isActive == IF q.active = "undefined" THEN d.isActive
                       ELSE q.active = "true"
           expiresAt == IF q.setExp THEN q.exp ELSE d.expiresAt
       IN IF q.id \notin DOMAIN urls
          THEN /\ req' = [req EXCEPT ![r] = Throw(q, "DocumentNotFoundError")]
               /\ UNCHANGED urls
          ELSE /\ urls' = [urls EXCEPT ![q.id] =
                             [d EXCEPT !.isActive = isActive,
                                       !.expiresAt = expiresAt]]
               /\ req' = [req EXCEPT ![r] = Respond(q, 200)]
    /\ UNCHANGED <<clicks, users, now, started, nextId>>
UpdateSave(r) ==
    /\ req[r].kind = "update"
    /\ req[r].pc = "save"
    /\ LET q == req[r]
           d == q.doc[1]
           isActive == IF q.active = "undefined" THEN d.isActive
                       ELSE q.active = "true"
           expiresAt == IF q.setExp THEN q.exp ELSE d.expiresAt
           modified == isActive # d.isActive \/ expiresAt # d.expiresAt
       IN IF ~modified
          THEN /\ req' = [req EXCEPT ![r] = Respond(q, 200)]
               /\ UNCHANGED urls
          ELSE IF q.id \notin DOMAIN urls
          THEN /\ req' = [req EXCEPT ![r] = Throw(q, "DocumentNotFoundError")]
               /\ UNCHANGED urls
          ELSE /\ urls' = [urls EXCEPT
                             ![q.id].isActive =
                                 IF isActive # d.isActive THEN isActive ELSE @,
                             ![q.id].expiresAt =
                                 IF expiresAt # d.expiresAt THEN expiresAt ELSE @]
               /\ req' = [req EXCEPT ![r] = Respond(q, 200)]
    /\ UNCHANGED <<clicks, users, now, started, nextId>>

---------------------------------------------------------------------------
(* getUrlDetails *)

DetailsStart(r, id, user) ==
    /\ Free(r)
    /\ started' = started + 1
    /\ req' = [req EXCEPT ![r] = [Idle EXCEPT !.kind = "details", !.id = id,
                                              !.user = user, !.pc = "find"]]
    /\ UNCHANGED <<urls, clicks, users, now, nextId>>

DetailsFind(r) ==
    /\ req[r].kind = "details"
    /\ req[r].pc = "find"
    /\ LET q == req[r]
           url == findUrlForUser(q.id, q.user)
       IN req' = [req EXCEPT ![r] =
                    IF url = None THEN Respond(q, 404)
                    ELSE [q EXCEPT !.doc = url, !.pc = "qrCode"]]
    /\ UNCHANGED <<urls, clicks, users, now, started, nextId>>

\* await shortUtils.generateQRCode(...), then the 200 with the link
DetailsQRCode(r) ==
    /\ req[r].kind = "details"
    /\ req[r].pc = "qrCode"
    /\ req' = [req EXCEPT ![r] = Respond(req[r], 200)]
    /\ UNCHANGED <<urls, clicks, users, now, started, nextId>>

getUrlDetails(r) ==
    \/ \E id \in DOMAIN urls, user \in Accounts : DetailsStart(r, id, user)
    \/ DetailsFind(r)
    \/ DetailsQRCode(r)

---------------------------------------------------------------------------
(* getUrlAnalytics *)

\* Two clock ticks make a day.
TicksPerDay == 2
\* The time value of `new Date(NaN)`
NaN == -99999
InvalidDate == NaN

\* A query string: startDate, endDate (NoDate when absent) and period
\* ("undefined" when absent).
Query(startDate, endDate, period) ==
    [startDate |-> startDate, endDate |-> endDate, period |-> period]

\* Property names every object literal inherits from Object.prototype.
ObjectPrototype == {"constructor", "toString", "valueOf", "__proto__"}

\* `{ '24h': 1, '7d': 7, '30d': 30, '90d': 90 }[period] || 7` with
\* `period = '7d'` for a missing parameter: an inherited member is a
\* function or an object, which is truthy and multiplies to NaN.
daysToSubtract(period) ==
    LET p == IF period = "undefined" THEN "7d" ELSE period
    IN IF p = "24h" THEN 1
       ELSE IF p = "7d" THEN 7
       ELSE IF p = "30d" THEN 30
       ELSE IF p = "90d" THEN 90
       ELSE IF p \in ObjectPrototype THEN NaN
       ELSE 7

\* getDateRange(query) at time t
getDateRange(query, t) ==
    IF query.startDate # NoDate /\ query.endDate # NoDate
    THEN [start |-> query.startDate, end |-> query.endDate]
    ELSE LET days == daysToSubtract(query.period)
         IN [start |-> IF days = NaN THEN InvalidDate
                       ELSE t - days * TicksPerDay,
             end |-> t]

\* The `switch (period)` of url.controller.js at time t
legacyDateRange(query, t) ==
    IF query.startDate # NoDate /\ query.endDate # NoDate
    THEN [start |-> query.startDate, end |-> query.endDate]
    ELSE LET p == IF query.period = "undefined" THEN "7d" ELSE query.period
             days == IF p = "24h" THEN 1
                     ELSE IF p = "7d" THEN 7
                     ELSE IF p = "30d" THEN 30
                     ELSE IF p = "90d" THEN 90
                     ELSE 7
         IN [start |-> t - days * TicksPerDay, end |-> t]

\* { $match: { url: url._id, timestamp: { $gte: start, $lte: end } } }
MatchOpenStart(l, start, end) ==
    {c \in clicks : c.url = l /\ start < c.timestamp /\ c.timestamp <= end}
Match(l, start, end) ==
    {c \in clicks : c.url = l /\ start <= c.timestamp /\ c.timestamp <= end}

\* What a scan can select: for an invalid start date the bound the driver
\* sends is not decided by this code; it selects nothing or everything up
\* to the end.
Scans(l, start, end) ==
    IF start = InvalidDate
    THEN {{}, {c \in clicks : c.url = l /\ c.timestamp <= end}}
    ELSE {Match(l, start, end)}

\* { $dateToString: { format: '%Y-%m-%d', date: '$timestamp' } }: the day
\* a time falls in.
dateToString(t) == t \div TicksPerDay

byDate(c) == dateToString(c.timestamp)
byCountry(c) == c.country
byDevice(c) == c.device

\* { $group: { _id: <key>, clicks: { $sum: 1 } } }, `key` giving the
\* grouping key of each click of S
Group(S, key) ==
    {[_id |-> k, clicks |-> Cardinality({c \in S : key[c] = k})] :
        k \in {key[c] : c \in S}}

\* The countries and device types, in alphabetical order.
Countries == <<"AR", "BR", "CA", "DE", "ES", "FR", "GB", "IT", "JP",
               "Local", "US", "Unknown">>
Devices == <<"desktop", "mobile", "tablet", "unknown">>
Rank(seq, x) == CHOOSE i \in 1..Len(seq) : seq[i] = x

\* { $sort: { clicks: -1 } }: the order of groups with equal counts is not
\* specified; the server happens to use the order of `keys` (dir = 1) or
\* its reverse (dir = -1).
RECURSIVE SortByClicks(_, _, _)
SortByClicks(G, keys, dir) ==
    IF G = {} THEN <<>>
    ELSE LET top == {g \in G : \A h \in G : h.clicks <= g.clicks}
             first == CHOOSE g \in top :
                         \A h \in top :
                             dir * Rank(keys, g._id) <= dir * Rank(keys, h._id)
         IN <<first>> \o SortByClicks(G \ {first}, keys, dir)

\* { $sort: { _id: 1 } }
RECURSIVE SortById(_)
SortById(G) ==
    IF G = {} THEN <<>>
    ELSE LET first == CHOOSE g \in G : \A h \in G : g._id <= h._id
         IN <<first>> \o SortById(G \ {first})

\* { $limit: n }
Limit(seq, n) == IF Len(seq) <= n THEN seq ELSE SubSeq(seq, 1, n)

\* The summary branch: one group over all matched clicks, none when
\* nothing matched; `summary[0] || { totalClicks: 0, uniqueVisitors: 0 }`.
Summary(S) ==
    IF S = {} THEN [totalClicks |-> 0, uniqueVisitors |-> 0]
    ELSE [totalClicks |-> Cardinality(S),
          uniqueVisitors |-> Cardinality({c.ipAddress : c \in S})]

ClicksByDate(S) ==
    SortById(Group(S, [c \in S |-> byDate(c)]))
ClicksByCountry(S, dir) ==
    Limit(SortByClicks(Group(S, [c \in S |-> byCountry(c)]), Countries, dir), 10)
ClicksByDevice(S, dir) ==
    SortByClicks(Group(S, [c \in S |-> byDevice(c)]), Devices, dir)

\* Click.find(...).sort({ timestamp: -1 }).limit(50): the ids of the
\* selected clicks, latest first.
RECURSIVE SortByTimestamp(_)
SortByTimestamp(S) ==
    IF S = {} THEN <<>>
    ELSE LET first == CHOOSE c \in S :
                         \A d \in S : \/ d.timestamp < c.timestamp
                                      \/ d.timestamp = c.timestamp /\ d.id <= c.id
         IN <<first.id>> \o SortByTimestamp(S \ {first})
RecentClicks(S) == Limit(SortByTimestamp(S), 50)

\* The four branches of the $facet stage the model carries (the browser and
\* operating-system branches are built like the country branch), over one
\* scan.
Facet(S, dir) ==
    [summary |-> Summary(S),
     clicksByDate |-> ClicksByDate(S),
     clicksByCountry |-> ClicksByCountry(S, dir),
     clicksByDevice |-> ClicksByDevice(S, dir)]

AnalyticsStart(r, id, user, query) ==
    /\ Free(r)
    /\ started' = started + 1
    /\ req' = [req EXCEPT ![r] = [Idle EXCEPT !.kind = "analytics", !.id = id,
                                              !.user = user, !.query = query,
                                              !.pc = "find"]]
    /\ UNCHANGED <<urls, clicks, users, now, nextId>>

\* findUrlForUser, the 404, and getDateRange(req.query)
AnalyticsFind(r) ==
    /\ req[r].kind = "analytics"
    /\ req[r].pc = "find"
    /\ LET q == req[r]
           url == findUrlForUser(q.id, q.user)
           range == getDateRange(q.query, now)
       IN req' = [req EXCEPT ![r] =
                    IF url = None THEN Respond(q, 404)
                    ELSE [q EXCEPT !.doc = url, !.at = now,
                                   !.start = range.start, !.end = range.end,
                                   !.pc = "aggregate"]]
    /\ UNCHANGED <<urls, clicks, users, now, started, nextId>>

\* await Click.aggregate(analyticsPipeline)
AnalyticsAggregate(r) ==
    /\ req[r].kind = "analytics"
    /\ req[r].pc = "aggregate"
    /\ \E S \in Scans(req[r].id, req[r].start, req[r].end), dir \in {-1, 1} :
         req' = [req EXCEPT ![r] = [req[r] EXCEPT !.report = Facet(S, dir),
                                                  !.pc = "recentClicks"]]
    /\ UNCHANGED <<urls, clicks, users, now, started, nextId>>

\* await Click.find({ url, timestamp }).sort(...).limit(50), then the 200
AnalyticsRecentClicks(r) ==
    /\ req[r].kind = "analytics"
    /\ req[r].pc = "recentClicks"
    /\ \E S \in Scans(req[r].id, req[r].start, req[r].end) :
         req' = [req EXCEPT ![r] =
                   Respond([req[r] EXCEPT !.report =
                               ("recentClicks" :> RecentClicks(S)) @@ @], 200)]
    /\ UNCHANGED <<urls, clicks, users, now, started, nextId>>

getUrlAnalytics(r, queries) ==
    \/ \E id \in DOMAIN urls, user \in Accounts, query \in queries :
         AnalyticsStart(r, id, user, query)
    \/ AnalyticsFind(r)
    \/ AnalyticsAggregate(r)
    \/ AnalyticsRecentClicks(r)

---------------------------------------------------------------------------
(* The controller of src/unnamed/part_000 *)

redirectUrl(r) ==
    \/ \E code \in {Code(DefaultLength, 1)},
          c \in {<<UABrowser, "203.0.113.7">>, <<UABot, "203.0.113.7">>,
                 <<UAEmpty, "203.0.113.7">>, <<UABrowser, "::ffff:203.0.113.7">>} :
         RedirectStart(r, code, c[1], c[2])
    \/ RedirectFind(r)
    \/ TrackClickCreate(r)
    \/ TrackIncrementClicks(r)
    \/ TrackIncTotalClicks(r)

deleteUrl(r) ==
    \/ \E id \in DOMAIN urls, user \in Users : DeleteStart(r, id, user)
    \/ DeleteFind(r)
    \/ DeleteClicks(r)
    \/ DeleteUrl(r)
    \/ DeleteDecUser(r)

updateUrl(r) ==
    \/ \E id \in DOMAIN urls, user \in Users,
          b \in {<<"false", FALSE, NoDate>>, <<"undefined", TRUE, 1>>} :
         UpdateStart(r, id, user, b[1], b[2], b[3])
    \/ UpdateFind(r)
    \/ UpdateSave(r)

Next ==
    \/ Tick
    \/ \E r \in Slots :
         createShortUrl(r, Users, {"a.example"}, {NoCode, Code(DefaultLength, 1)},
                        {NoDate, 1})
    \/ \E r \in Slots : redirectUrl(r)
    \/ \E r \in Slots : updateUrl(r)
    \/ \E r \in Slots : deleteUrl(r)

Spec == Init /\ [][Next]_vars

\* The link registry alone: authenticated and anonymous creates, with and
\* without a custom alias, against updates and deletes.
\* The aliases asked for: none, one that the generator can also produce,
\* 'Admin', and one of 21 characters.
RegistryAliases == {NoCode, Code(DefaultLength, 1), Code(5, 101), Code(21, 1)}

NextRegistry ==
    \/ \E r \in Slots :
         createShortUrl(r, Users \cup {NoUser}, {"a.example", "https://a.example"},
                        RegistryAliases, {NoDate})
    \/ \E r \in Slots : updateUrl(r)
    \/ \E r \in Slots : deleteUrl(r)

SpecRegistry == Init /\ [][NextRegistry]_vars

---------------------------------------------------------------------------
(* The controller of src/backend/src/controllers/url.controller.js *)

\* After the alias has been validated and no existing link was returned:
\* `customAlias ? customAlias.trim() : await generateShortCode()`.
LegacyAllocateCode(q) ==
    IF q.alias # NoCode THEN ValidateExpiration(q, q.alias)
    ELSE [q EXCEPT !.pc = "generate", !.attempts = 0, !.length = DefaultLength]

LegacyCreateStart(r, user, raw, alias, exp) ==
    /\ Free(r)
    /\ started' = started + 1
    /\ LET q == [Idle EXCEPT !.kind = "create", !.user = user,
                             !.dest = normalizeUrl(raw), !.alias = alias,
                             !.exp = exp, !.had = Held(user, normalizeUrl(raw))]
       IN req' = [req EXCEPT ![r] =
                    IF raw = "" THEN Respond(q, 400)
                    ELSE IF ~isValidUrl(normalizeUrl(raw)) THEN Respond(q, 400)
                    ELSE IF alias # NoCode THEN [q EXCEPT !.pc = "legacyAlias"]
                    ELSE IF user # NoUser THEN [q EXCEPT !.pc = "legacyExisting"]
                    ELSE LegacyAllocateCode(q)]
    /\ UNCHANGED <<urls, clicks, users, now, nextId>>

LegacyCreateValidateAlias(r) ==
    /\ req[r].kind = "create"
    /\ req[r].pc = "legacyAlias"
    /\ LET q == req[r]
           v == validateCustomAlias(q.alias)
       IN req' = [req EXCEPT ![r] =
                    IF v # "ok" THEN [Respond(q, 400) EXCEPT !.err = v]
                    ELSE IF q.user # NoUser THEN [q EXCEPT !.pc = "legacyExisting"]
                    ELSE LegacyAllocateCode(q)]
    /\ UNCHANGED <<urls, clicks, users, now, started, nextId>>

LegacyCreateFindExisting(r) ==
    /\ req[r].kind = "create"
    /\ req[r].pc = "legacyExisting"
    /\ LET q == req[r]
           hit == {l \in DOMAIN urls :
                     urls[l].originalUrl = q.dest /\ urls[l].user = q.user}
       IN req' = [req EXCEPT ![r] =
                    IF hit # {}
                    THEN [Respond(q, 200) EXCEPT !.id = CHOOSE l \in hit : TRUE]
                    ELSE LegacyAllocateCode(q)]
    /\ UNCHANGED <<urls, clicks, users, now, started, nextId>>

LegacyRedirectStart(r, code, ua, ip) ==
    /\ Free(r)
    /\ started' = started + 1
    /\ req' = [req EXCEPT ![r] = [Idle EXCEPT !.kind = "redirect", !.code = code,
                                              !.ua = ua, !.ip = ip,
                                              !.pc = "legacyFind"]]
    /\ UNCHANGED <<urls, clicks, users, now, nextId>>

\* The lookup, the expiry check and the bot check; a bot is redirected at
\* once, any other client after the three awaited writes.
LegacyRedirectFind(r) ==
    /\ req[r].kind = "redirect"
    /\ req[r].pc = "legacyFind"
    /\ LET q == req[r] IN
         IF FindActive(q.code) = {}
         THEN req' = [req EXCEPT ![r] = Respond(q, 404)]
         ELSE \E l \in FindActive(q.code) :
                LET d == urls[l]
                    f == [q EXCEPT !.id = l, !.doc = Some(d), !.at = now]
                IN req' = [req EXCEPT ![r] =
                             IF isExpired(d, now) THEN Respond(f, 410)
                             ELSE IF isBot(q.ua) THEN Respond(f, 301)
                             ELSE [f EXCEPT !.pc = "legacyClick"]]
    /\ UNCHANGED <<urls, clicks, users, now, started, nextId>>

\* await Click.create(clickData)
LegacyClickCreate(r) ==
    /\ req[r].kind = "redirect"
    /\ req[r].pc = "legacyClick"
    /\ LET q == req[r] IN
         IF ClickValid(q.ua, q.ip)
         THEN /\ clicks' = clicks \cup {[id |-> nextId, url |-> q.id,
                                        timestamp |-> q.at, ipAddress |-> q.ip,
                                        country |-> getGeolocation(q.ip),
                                        device |-> parseDevice(q.ua)]}
              /\ nextId' = nextId + 1
              /\ req' = [req EXCEPT ![r] = [q EXCEPT !.pc = "legacyClicks"]]
         ELSE /\ req' = [req EXCEPT ![r] = Throw(q, "ValidationError")]
              /\ UNCHANGED <<clicks, nextId>>
    /\ UNCHANGED <<urls, users, now, started>>

\* await url.incrementClicks()
LegacyIncrementClicks(r) ==
    /\ req[r].kind = "redirect"
    /\ req[r].pc = "legacyClicks"
    /\ LET q == req[r] IN
         IF q.id \in DOMAIN urls
         THEN /\ urls' = incrementClicks(q.id, q.doc[1], now)
              /\ req' = [req EXCEPT ![r] =
                           IF q.doc[1].user # NoUser
                           THEN [q EXCEPT !.pc = "legacyTotalClicks"]
                           ELSE Respond(q, 301)]
         ELSE /\ req' = [req EXCEPT ![r] = Throw(q, "DocumentNotFoundError")]
              /\ UNCHANGED urls
    /\ UNCHANGED <<clicks, users, now, started, nextId>>

\* await User.findByIdAndUpdate(url.user, { $inc: { totalClicks: 1 } }),
\* then res.redirect(301, url.originalUrl)
LegacyIncTotalClicks(r) ==
    /\ req[r].kind = "redirect"
    /\ req[r].pc = "legacyTotalClicks"
    /\ users' = [users EXCEPT ![req[r].doc[1].user].totalClicks = @ + 1]
    /\ req' = [req EXCEPT ![r] = Respond(req[r], 301)]
    /\ UNCHANGED <<urls, clicks, now, started, nextId>>

LegacyDeleteStart(r, id, user) ==
    /\ Free(r)
    /\ started' = started + 1
    /\ req' = [req EXCEPT ![r] = [Idle EXCEPT !.kind = "delete", !.id = id,
                                              !.user = user, !.pc = "legacyFind"]]
    /\ UNCHANGED <<urls, clicks, users, now, nextId>>

LegacyDeleteFind(r) ==
    /\ req[r].kind = "delete"
    /\ req[r].pc = "legacyFind"
    /\ LET q == req[r]
           url == findUrlForUser(q.id, q.user)
       IN req' = [req EXCEPT ![r] =
                    IF url = None THEN Respond(q, 404)
                    ELSE [q EXCEPT !.doc = url, !.pc = "legacyClicks",
                                   !.pending = {"clicks", "url", "user"}]]
    /\ UNCHANGED <<urls, clicks, users, now, started, nextId>>

\* await Click.deleteMany({ url: url._id })
LegacyDeleteClicks(r) ==
    /\ req[r].kind = "delete"
    /\ req[r].pc = "legacyClicks"
    /\ clicks' = {c \in clicks : c.url # req[r].id}
    /\ req' = [req EXCEPT ![r] = [req[r] EXCEPT !.pc = "legacyUrl",
                                                !.pending = {"url", "user"}]]
    /\ UNCHANGED <<urls, users, now, started, nextId>>

\* await Url.findByIdAndDelete(url._id)
LegacyDeleteUrl(r) ==
    /\ req[r].kind = "delete"
    /\ req[r].pc = "legacyUrl"
    /\ urls' = [l \in DOMAIN urls \ {req[r].id} |-> urls[l]]
    /\ req' = [req EXCEPT ![r] = [req[r] EXCEPT !.pc = "legacyUser",
                                                !.pending = {"user"}]]
    /\ UNCHANGED <<clicks, users, now, started, nextId>>

\* await User.findByIdAndUpdate(...), then the 200
LegacyDeleteDecUser(r) ==
    /\ req[r].kind = "delete"
    /\ req[r].pc = "legacyUser"
    /\ users' = [users EXCEPT
                   ![req[r].user].urlsCount = @ - 1,
                   ![req[r].user].totalClicks = @ - req[r].doc[1].clicks]
    /\ req' = [req EXCEPT ![r] = Respond([req[r] EXCEPT !.pending = {}], 200)]
    /\ UNCHANGED <<urls, clicks, now, started, nextId>>

LegacyUpdateStart(r, id, user, active, setExp, exp) ==
    /\ Free(r)
    /\ started' = started + 1
    /\ req' = [req EXCEPT ![r] = [Idle EXCEPT !.kind = "update", !.id = id,
                                              !.user = user, !.active = active,
                                              !.setExp = setExp, !.exp = exp,
                                              !.pc = "legacyFind"]]
    /\ UNCHANGED <<urls, clicks, users, now, nextId>>

\* Url.findOne({ _id, user }), the fields of the body applied to the
\* loaded document; an expiration that is not in the future is answered
\* 400 before anything is saved.
LegacyUpdateFindLenient(r) ==
    /\ req[r].kind = "update"
    /\ req[r].pc = "legacyFind"
    /\ LET q == req[r]
           url == findUrlForUser(q.id, q.user)
       IN req' = [req EXCEPT ![r] =
                    IF url = None THEN Respond(q, 404)
                    ELSE IF q.setExp /\ q.exp # NoDate /\ q.exp < now
                    THEN [Respond(q, 400) EXCEPT
                            !.err = "Expiration date must be in the future"]
                    ELSE [q EXCEPT !.doc = url, !.pc = "save"]]
    /\ UNCHANGED <<urls, clicks, users, now, started, nextId>>
LegacyUpdateFind(r) ==
    /\ req[r].kind = "update"
    /\ req[r].pc = "legacyFind"
    /\ LET q == req[r]
           url == findUrlForUser(q.id, q.user)
       IN req' = [req EXCEPT ![r] =
                    IF url = None THEN Respond(q, 404)
                    ELSE IF q.setExp /\ q.exp # NoDate /\ q.exp <= now
                    THEN [Respond(q, 400) EXCEPT
                            !.err = "Expiration date must be in the future"]
                    ELSE [q EXCEPT !.doc = url, !.pc = "save"]]
    /\ UNCHANGED <<urls, clicks, users, now, started, nextId>>

LegacyAnalyticsStart(r, id, user, query) ==
    /\ Free(r)
    /\ started' = started + 1
    /\ req' = [req EXCEPT ![r] = [Idle EXCEPT !.kind = "analytics", !.id = id,
                                              !.user = user, !.query = query,
                                              !.pc = "legacyFind"]]
    /\ UNCHANGED <<urls, clicks, users, now, nextId>>

\* The queries of the Promise.all the model carries (the browser and
\* operating-system queries are built like the country query).
LegacyQueries ==
    {"summary", "clicksByDate", "clicksByCountry", "clicksByDevice",
     "recentClicks"}

\* Url.findOne({ _id, user }), the 404, the date range, and the queries
\* handed to Promise.all.
LegacyAnalyticsFind(r) ==
    /\ req[r].kind = "analytics"
    /\ req[r].pc = "legacyFind"
    /\ LET q == req[r]
           url == findUrlForUser(q.id, q.user)
           range == legacyDateRange(q.query, now)
       IN req' = [req EXCEPT ![r] =
                    IF url = None THEN Respond(q, 404)
                    ELSE [q EXCEPT !.doc = url, !.at = now,
                                   !.start = range.start, !.end = range.end,
                                   !.pending = LegacyQueries,
                                   !.pc = "legacyQueries"]]
    /\ UNCHANGED <<urls, clicks, users, now, started, nextId>>

\* The orders a query's $sort by count can come back in.
SortOrders(part) ==
    IF part \in {"clicksByCountry", "clicksByDevice"} THEN {-1, 1} ELSE {1}

\* The result of one query over its own scan.
LegacyQuery(part, S, dir) ==
    IF part = "summary" THEN Summary(S)
    ELSE IF part = "clicksByDate" THEN Limit(ClicksByDate(S), 100)
    ELSE IF part = "clicksByCountry" THEN ClicksByCountry(S, dir)
    ELSE IF part = "clicksByDevice" THEN ClicksByDevice(S, dir)
    ELSE RecentClicks(S)

\* One of the queries is answered by the database; the handler resumes
\* and responds when the last one is.
LegacyAnalyticsQuery(r) ==
    /\ req[r].kind = "analytics"
    /\ req[r].pc = "legacyQueries"
    /\ \E part \in req[r].pending : \E dir \in SortOrders(part) :
         LET q == req[r]
             S == Match(q.id, q.start, q.end)
             a == [q EXCEPT !.report = (part :> LegacyQuery(part, S, dir)) @@ @,
                            !.pending = @ \ {part}]
         IN req' = [req EXCEPT ![r] =
                      IF a.pending = {} THEN Respond(a, 200) ELSE a]
    /\ UNCHANGED <<urls, clicks, users, now, started, nextId>>

legacyGetUrlAnalytics(r, queries) ==
    \/ \E id \in DOMAIN urls, user \in Accounts, query \in queries :
         LegacyAnalyticsStart(r, id, user, query)
    \/ LegacyAnalyticsFind(r)
    \/ LegacyAnalyticsQuery(r)

legacyCreateShortUrl(r) ==
    \/ \E user \in Users, alias \in {NoCode, Code(DefaultLength, 1)},
          exp \in {NoDate, 1} :
         LegacyCreateStart(r, user, "a.example", alias, exp)
    \/ LegacyCreateValidateAlias(r)
    \/ LegacyCreateFindExisting(r)
    \/ CreateGenerate(r)
    \/ CreateInsert(r)
    \/ CreateIncUrlsCount(r)

legacyRedirectUrl(r) ==
    \/ \E code \in {Code(DefaultLength, 1)},
          c \in {<<UABrowser, "203.0.113.7">>, <<UABot, "203.0.113.7">>,
                 <<UAEmpty, "203.0.113.7">>, <<UABrowser, "::ffff:203.0.113.7">>} :
         LegacyRedirectStart(r, code, c[1], c[2])
    \/ LegacyRedirectFind(r)
    \/ LegacyClickCreate(r)
    \/ LegacyIncrementClicks(r)
    \/ LegacyIncTotalClicks(r)

legacyDeleteUrl(r) ==
    \/ \E id \in DOMAIN urls, user \in Users : LegacyDeleteStart(r, id, user)
    \/ LegacyDeleteFind(r)
    \/ LegacyDeleteClicks(r)
    \/ LegacyDeleteUrl(r)
    \/ LegacyDeleteDecUser(r)

\* Bodies of an update: { isActive: false, expiresAt: <time 1> } and
\* { expiresAt: null }.
legacyUpdateUrl(r) ==
    \/ \E id \in DOMAIN urls, user \in Users,
          b \in {<<"false", TRUE, 1>>, <<"undefined", TRUE, NoDate>>} :
         LegacyUpdateStart(r, id, user, b[1], b[2], b[3])
    \/ LegacyUpdateFind(r)
    \/ UpdateSave(r)

NextLegacy ==
    \/ Tick
    \/ \E r \in Slots : legacyUpdateUrl(r)
    \/ \E r \in Slots : legacyCreateShortUrl(r)
    \/ \E r \in Slots : legacyRedirectUrl(r)
    \/ \E r \in Slots : legacyDeleteUrl(r)

SpecLegacy == Init /\ [][NextLegacy]_vars

---------------------------------------------------------------------------
(* Ownership: links of one account and of anonymous visitors, read,
   updated and deleted by that account and by another one *)

OwnerActs(r) ==
    \/ createShortUrl(r, Users \cup {NoUser}, {"a.example"},
                      {NoCode, Code(DefaultLength, 1)}, {NoDate})
    \/ RedirectStart(r, Code(DefaultLength, 1), UABrowser, "203.0.113.7")
    \/ RedirectFind(r)
    \/ TrackClickCreate(r)
    \/ TrackIncrementClicks(r)
    \/ TrackIncTotalClicks(r)

AccountActs(r) ==
    \/ getUrlDetails(r)
    \/ getUrlAnalytics(r, {Query(NoDate, NoDate, "undefined")})
    \/ \E id \in DOMAIN urls, user \in Accounts :
         UpdateStart(r, id, user, "false", FALSE, NoDate)
    \/ UpdateFind(r)
    \/ UpdateSave(r)
    \/ \E id \in DOMAIN urls, user \in Accounts : DeleteStart(r, id, user)
    \/ DeleteFind(r)
    \/ DeleteClicks(r)
    \/ DeleteUrl(r)
    \/ DeleteDecUser(r)

NextOwnership ==
    \/ \E r \in Slots : OwnerActs(r)
    \/ \E r \in Slots : AccountActs(r)

SpecOwnership == Init /\ [][NextOwnership]_vars

---------------------------------------------------------------------------
(* The analytics report as a function of the stored clicks: one link with
   a history of clicks, and analytics requests for it *)

\* The click recorded i + 1 ticks before time 0 from the i-th country of the
\* catalogue (as a geolocation service would report it).
PastClick(i) ==
    [id |-> 100 + i, url |-> 1, timestamp |-> 0 - i - 1,
     ipAddress |-> "203.0.113.7", country |-> Countries[i],
     device |-> Devices[(i % 2) + 1]]

\* Further clicks: seven days and one day before time 0 to the tick, and
\* at time 0.
MoreClicks ==
    {[id |-> 201, url |-> 1, timestamp |-> 0 - 7 * TicksPerDay,
      ipAddress |-> "203.0.113.7", country |-> "US", device |-> "mobile"],
     [id |-> 202, url |-> 1, timestamp |-> 0 - TicksPerDay,
      ipAddress |-> "127.0.0.1", country |-> "DE", device |-> "tablet"],
     [id |-> 203, url |-> 1, timestamp |-> 0,
      ipAddress |-> "127.0.0.1", country |-> "US", device |-> "mobile"]}

\* The link after the clicks in S were recorded.
ClickedLink(S) ==
    [shortCode |-> Code(DefaultLength, 1), customAlias |-> NoCode,
     user |-> "u1", originalUrl |-> "https://a.example",
     clicks |-> Cardinality(S), isActive |-> TRUE, expiresAt |-> NoDate,
     lastClickedAt |-> IF S = {} THEN NoDate
                       ELSE (CHOOSE c \in S :
                               \A d \in S : d.timestamp <= c.timestamp).timestamp,
     createdAt |-> 0 - 100 * TicksPerDay]

\* How many countries the history covers: none, a few, as many as the
\* country breakdown lists, and more than that.
HistorySizes == {0, 3, 10, 11, Len(Countries)}

InitReport ==
    /\ \E n \in HistorySizes, more \in SUBSET MoreClicks :
         LET S == {PastClick(i) : i \in 1..n} \cup more
         IN /\ clicks = S
            /\ urls = (1 :> ClickedLink(S))
            /\ users = [u \in Accounts |->
                          IF u = "u1"
                          THEN [urlsCount |-> 1, totalClicks |-> Cardinality(S)]
                          ELSE [urlsCount |-> 0, totalClicks |-> 0]]
    /\ now \in 0..MaxTime
    /\ req = [r \in Slots |-> Idle]
    /\ started = 0
    /\ nextId = 300

\* The query strings asked: no parameter, each period, an unknown period,
\* a period that names an inherited member, both dates, one date.
ReportQueries ==
    {Query(NoDate, NoDate, p) :
        p \in {"undefined", "24h", "7d", "30d", "90d", "1y", "constructor"}}
    \cup {Query(0 - 7 * TicksPerDay, 0 - TicksPerDay, "30d"),
          Query(0 - 7 * TicksPerDay, NoDate, "24h")}

NextReport ==
    \/ getUrlAnalytics(1, ReportQueries)
    \/ legacyGetUrlAnalytics(1, ReportQueries)

SpecReport == InitReport /\ [][NextReport]_vars

---------------------------------------------------------------------------
(* Analytics requests against redirects and deletes of the same link *)

\* The link has been clicked once.
InitAnalytics ==
    /\ LET S == {PastClick(1)}
       IN /\ clicks = S
          /\ urls = (1 :> ClickedLink(S))
          /\ users = [u \in Accounts |->
                        IF u = "u1"
                        THEN [urlsCount |-> 1, totalClicks |-> Cardinality(S)]
                        ELSE [urlsCount |-> 0, totalClicks |-> 0]]
    /\ now = 0
    /\ req = [r \in Slots |-> Idle]
    /\ started = 0
    /\ nextId = 300

AnalyticsQueries == {Query(NoDate, NoDate, "undefined")}

NextAnalytics ==
    \/ \E r \in Slots : getUrlAnalytics(r, AnalyticsQueries)
    \/ \E r \in Slots : legacyGetUrlAnalytics(r, AnalyticsQueries)
    \/ \E r \in Slots :
         \/ RedirectStart(r, Code(DefaultLength, 1), UAMobile, "203.0.113.7")
         \/ RedirectFind(r)
         \/ TrackClickCreate(r)
         \/ TrackIncrementClicks(r)
         \/ TrackIncTotalClicks(r)
    \/ \E r \in Slots : deleteUrl(r)

SpecAnalytics == InitAnalytics /\ [][NextAnalytics]_vars

---------------------------------------------------------------------------
(* The code generators against registries in which candidates are taken *)

\* A stored anonymous link with code c, created with c as its alias or
\* with c generated.
TakenLink(c, aliased) ==
    [shortCode |-> c, customAlias |-> IF aliased THEN c ELSE NoCode,
     user |-> NoUser, originalUrl |-> "https://b.example", clicks |-> 0,
     isActive |-> TRUE, expiresAt |-> NoDate, lastClickedAt |-> NoDate,
     createdAt |-> 0]

\* The _id of the link with code c in such a registry.
TakenId(c) == 2 * c.len + (IF c.id = 1 THEN 0 ELSE 1)

\* The registry holds the first candidate of each of the k lengths from
\* the default on (those of odd length as aliases) and some of the
\* candidates of length 8.
InitGenerator ==
    /\ \E k \in 0..maxAttempts,
          more \in SUBSET {Code(DefaultLength1, 1), Code(DefaultLength1, 200)} :
         LET T == {Code(DefaultLength + j, 1) : j \in 0..(k - 1)} \cup more
         IN urls = [i \in {TakenId(c) : c \in T} |->
                      LET c == CHOOSE x \in T : TakenId(x) = i
                      IN TakenLink(c, c.len % 2 = 1 \/ c.id = 200)]
    /\ clicks = {}
    /\ users = [u \in Accounts |-> [urlsCount |-> 0, totalClicks |-> 0]]
    /\ now = 0
    /\ req = [r \in Slots |-> Idle]
    /\ started = 0
    /\ nextId = 100

NextGenerator ==
    \/ \E r \in Slots : CreateStart(r, NoUser, "a.example", NoCode, NoDate)
    \/ \E r \in Slots : CreateGenerate(r)
    \/ \E r \in Slots : CreateInsert(r)
    \/ \E r \in Slots : generateShortCode1(r)

SpecGenerator == InitGenerator /\ [][NextGenerator]_vars

---------------------------------------------------------------------------
(* Properties *)

\* C1: in every reachable state no two stored links have the same short
\* code.
C1_UniqueShortCode ==
    \A a, b \in DOMAIN urls : a # b => urls[a].shortCode # urls[b].shortCode

\* Two links are stored and a concurrent insert of a taken code has been
\* rejected.
C1_Witness ==
    /\ Cardinality(DOMAIN urls) >= 2
    /\ \E r \in Slots : req[r].kind = "create" /\ req[r].err = "E11000"

\* C2: a create without alias whose generated code passed the generator's
\* check does not end in an error because its insert met the unique
\* constraint: it retries with a new code.
C2_RetriesAfterCollision ==
    \A r \in Slots :
        (req[r].kind = "create" /\ req[r].alias = NoCode /\ req[r].pc = "done")
            => req[r].err # "E11000"

\* The step in which redirect request r performs its lookup and answers.
Lookup(r) ==
    /\ req[r].kind = "redirect"
    /\ req[r].pc = "find"
    /\ req'[r].pc # "find"

\* The stored links that are active and carry the code as short code or
\* custom alias, and those of them whose expiration lies in the past.
Matched(code) ==
    {l \in DOMAIN urls :
        urls[l].isActive /\ (urls[l].shortCode = code \/ urls[l].customAlias = code)}
Lapsed(code) ==
    {l \in Matched(code) : urls[l].expiresAt # NoDate /\ urls[l].expiresAt < now}

\* C3: a redirect answers 404 exactly when no active link has the code as
\* short code or alias, 410 exactly when the matched active link has an
\* expiration in the past, and 301 otherwise; it is always one of the three.
C3_RedirectOutcome ==
    [][\A r \in Slots : Lookup(r) =>
          /\ req'[r].status \in {404, 410, 301}
          /\ req'[r].status = 404 <=> Matched(req[r].code) = {}
          /\ req'[r].status = 410 <=>
                 (Matched(req[r].code) # {} /\ req'[r].id \in Lapsed(req[r].code))
          /\ req'[r].status = 301 <=>
                 (Matched(req[r].code) # {} /\ req'[r].id \in Matched(req[r].code)
                                            /\ req'[r].id \notin Lapsed(req[r].code))
      ]_vars

\* One redirect was answered 410 and another 404 for the code of a stored
\* link that is inactive.
C3_Witness ==
    \E a, b \in Slots :
        /\ req[a].kind = "redirect" /\ req[a].status = 410
        /\ req[b].kind = "redirect" /\ req[b].status = 404
        /\ \E l \in DOMAIN urls : urls[l].shortCode = req[b].code /\ ~urls[l].isActive

\* C4: a redirect of an active link whose expiration is in the past
\* creates no Click, leaves the link's click count and last-clicked time and
\* the owner's total click count unchanged, and sends no redirect.
C4_ExpiredLeavesNoTrace ==
    [][\A r \in Slots : (Lookup(r) /\ Lapsed(req[r].code) # {}) =>
          /\ req'[r].status = 410
          /\ req'[r].pc = "done"
          /\ req'[r].pending = {}
          /\ clicks' = clicks
          /\ urls' = urls
          /\ users' = users
      ]_vars

\* A redirect of an active link, looked up after its expiration, is over.
C4_Witness ==
    \E r \in Slots :
        /\ req[r].kind = "redirect" /\ req[r].pc = "done" /\ req[r].doc # None
        /\ req[r].doc[1].isActive
        /\ req[r].doc[1].expiresAt # NoDate
        /\ req[r].doc[1].expiresAt < req[r].at

\* C5: a redirect by a bot of an active, unexpired link gets the 301,
\* creates no Click and leaves the link's click count and last-clicked time
\* and the owner's total click count unchanged.
C5_BotLeavesNoTrace ==
    [][\A r \in Slots :
          (Lookup(r) /\ isBot(req[r].ua) /\ Matched(req[r].code) # {}
                     /\ Lapsed(req[r].code) = {}) =>
              /\ req'[r].status = 301
              /\ req'[r].pc = "done"
              /\ req'[r].pending = {}
              /\ clicks' = clicks
              /\ urls' = urls
              /\ users' = users
      ]_vars

\* A bot has been redirected to an owned link.
C5_Witness ==
    \E r \in Slots :
        /\ req[r].kind = "redirect" /\ isBot(req[r].ua)
        /\ req[r].status = 301 /\ req[r].pc = "done"
        /\ req[r].doc # None /\ req[r].doc[1].user \in Users

\* C6: once the lookup of a redirect has found an active, unexpired link
\* the 301 has been sent: the response does not wait for the click
\* recording and no failure of the recording changes it.
C6_RedirectNeverWaits ==
    \A r \in Slots :
        (/\ req[r].kind = "redirect"
         /\ req[r].doc # None
         /\ ~(req[r].doc[1].expiresAt # NoDate /\ req[r].doc[1].expiresAt < req[r].at))
            => req[r].status = 301

\* C7: two non-bot redirects that read the same click count k of a link
\* and whose recordings both completed without error leave the link's click
\* count at k + 2 or more.
C7_NoLostIncrement ==
    \A a, b \in Slots :
        (/\ a # b
         /\ \A r \in {a, b} :
               /\ req[r].kind = "redirect" /\ req[r].pc = "done"
               /\ req[r].status = 301 /\ ~isBot(req[r].ua) /\ ~req[r].failed
         /\ req[a].id = req[b].id
         /\ req[a].doc[1].clicks = req[b].doc[1].clicks
         /\ req[a].id \in DOMAIN urls)
            => urls[req[a].id].clicks >= req[a].doc[1].clicks + 2

\* No click recording and no delete is in progress.
Quiescent ==
    \A r \in Slots :
        /\ ~(req[r].kind = "redirect" /\ req[r].pc \notin {"find", "done"})
        /\ ~(req[r].kind = "delete" /\ req[r].pc \notin {"find", "done"})

\* C8: whenever no click recording and no delete is in progress, every
\* link's click count equals the number of Click records that reference it.
C8_ClickCountMatchesRecords ==
    Quiescent =>
        \A l \in DOMAIN urls :
            urls[l].clicks = Cardinality({c \in clicks : c.url = l})

\* C9: while a delete is in progress a concurrent redirect about to read
\* sees the state before the delete (the link stored, none of the three
\* effects applied) or the state after it (the link gone, all three
\* applied).
C9_DeleteSeenWholeOrNotAtAll ==
    \A d, o \in Slots :
        (/\ req[d].kind = "delete" /\ req[d].doc # None
         /\ req[o].kind = "redirect" /\ req[o].pc = "find")
            => \/ req[d].pending = {"clicks", "url", "user"}
               \/ req[d].pending = {}

\* C10: the step that removes a link also removes every Click record that
\* references it and takes 1 off the owner's link count and the link's click
\* count off the owner's total: the effects are applied together or not at
\* all.
C10_DeleteIsOneUnit ==
    [][\A l \in DOMAIN urls : l \notin DOMAIN urls' =>
          /\ \A c \in clicks' : c.url # l
          /\ urls[l].user \in Users =>
                /\ users'[urls[l].user].urlsCount = users[urls[l].user].urlsCount - 1
                /\ users'[urls[l].user].totalClicks =
                       users[urls[l].user].totalClicks - urls[l].clicks
      ]_vars

\* Every request of one of the kinds has been answered and has settled.
Over(kinds) ==
    \A r \in Slots : req[r].kind \in kinds => req[r].pc = "done"

\* The stored links of an owner.
LinksOf(u) == {l \in DOMAIN urls : urls[l].user = u}

\* C11: whenever no delete is in progress, every stored Click record
\* references a stored link.
C11_NoOrphanClick ==
    Over({"delete"}) => \A c \in clicks : c.url \in DOMAIN urls

\* C12: whenever no create and no delete is in progress, each owner's link
\* count equals the number of stored links of that owner.
C12_UrlsCountMatchesLinks ==
    Over({"create", "delete"}) =>
        \A u \in Users : users[u].urlsCount = Cardinality(LinksOf(u))

RECURSIVE SumClicks(_)
SumClicks(S) ==
    IF S = {} THEN 0
    ELSE LET l == CHOOSE x \in S : TRUE
         IN urls[l].clicks + SumClicks(S \ {l})

\* C13: whenever no click recording and no delete is in progress, each
\* owner's total click count equals the sum of the click counts of the
\* links of that owner.
C13_TotalClicksMatchesSum ==
    Over({"redirect", "delete"}) =>
        \A u \in Users : users[u].totalClicks = SumClicks(LinksOf(u))

\* C14: a create request by an owner who, when the request was received,
\* held a link with the request's normalized destination (and still holds
\* it) ends by returning such a link with 200, and its final step changes
\* neither the stored links nor the owners' counters.
C14_IdempotentCreate ==
    [][\A r \in Slots :
          (/\ req[r].kind = "create"
           /\ req[r].pc \notin {"idle", "done"}
           /\ req'[r].pc = "done"
           /\ req[r].user \in Users
           /\ req[r].had \cap DOMAIN urls # {}) =>
              /\ req'[r].status = 200
              /\ req'[r].id \in Held(req[r].user, req[r].dest)
              /\ urls' = urls
              /\ users' = users
      ]_vars

\* C15: the custom alias of a stored link is neither the short code nor the
\* custom alias of another stored link.
C15_AliasUnique ==
    \A a, b \in DOMAIN urls :
        (a # b /\ urls[a].customAlias # NoCode) =>
            /\ urls[a].customAlias # urls[b].shortCode
            /\ urls[a].customAlias # urls[b].customAlias

\* A link with an alias and another link are stored, and a create asking
\* for a taken alias has been turned down.
C15_Witness ==
    /\ \E a, b \in DOMAIN urls : a # b /\ urls[a].customAlias # NoCode
    /\ \E r \in Slots :
          /\ req[r].kind = "create" /\ req[r].alias # NoCode
          /\ req[r].err \in {"taken", "E11000"}

\* The step in which create request r, not yet past its insert, ends.
CreateEnds(r) ==
    /\ req[r].kind = "create"
    /\ req[r].pc \in {"existing", "validateAlias", "legacyAlias",
                      "legacyExisting", "generate", "insert"}
    /\ req'[r].pc = "done"

\* The request is answered with a link its owner already holds for the
\* destination.
ReturnsExisting(r) ==
    /\ req'[r].status = 200
    /\ req[r].user \in Users
    /\ req'[r].id \in Held(req[r].user, req[r].dest)

\* 'admin' in either spelling of the alias catalogue.
Reserved(alias) == alias \in {Code(5, 100), Code(5, 101)}

Taken(alias) ==
    /\ alias # NoCode
    /\ \E l \in DOMAIN urls :
          urls[l].shortCode = alias \/ urls[l].customAlias = alias

C17_AliasBecomesCode ==
    [][\A r \in Slots :
          (/\ req[r].kind = "create" /\ req[r].pc = "insert"
           /\ req'[r].pc # "insert"
           /\ req[r].alias # NoCode
           /\ aliasRegex(req[r].alias)
           /\ req[r].alias.len >= 3 /\ req[r].alias.len <= 50
           /\ ~Reserved(req[r].alias)
           /\ ~Taken(req[r].alias)) =>
              /\ nextId \in DOMAIN urls'
              /\ urls'[nextId].shortCode = req[r].alias
              /\ req'[r].err = ""
      ]_vars

Immutable ==
    {"shortCode", "customAlias", "originalUrl", "user", "clicks",
     "lastClickedAt", "createdAt"}

\* C19: the step in which an update succeeds removes no link, changes no
\* attribute of any link other than the active flag and the expiration (the
\* allow-listed ones the model carries), in particular not the click count
\* and the last-clicked time a redirect wrote since the update read the
\* link, and changes no Click record and no owner counter.
C19_UpdateTouchesAllowListOnly ==
    [][\A r \in Slots :
          (/\ req[r].kind = "update" /\ req[r].pc \notin {"idle", "done"}
           /\ req'[r].pc = "done" /\ req'[r].status = 200) =>
              /\ DOMAIN urls' = DOMAIN urls
              /\ \A l \in DOMAIN urls : \A f \in Immutable :
                     urls'[l][f] = urls[l][f]
              /\ \A l \in DOMAIN urls \ {req[r].id} : urls'[l] = urls[l]
              /\ clicks' = clicks
              /\ users' = users
      ]_vars

\* An update has deactivated a link whose click count a redirect had
\* raised after the update read it.
C19_Witness ==
    \E r \in Slots :
        /\ req[r].kind = "update" /\ req[r].pc = "done" /\ req[r].status = 200
        /\ req[r].doc # None /\ req[r].id \in DOMAIN urls
        /\ req[r].doc[1].isActive /\ ~urls[req[r].id].isActive
        /\ req[r].doc[1].clicks = 0
        /\ urls[req[r].id].clicks = 1
        /\ urls[req[r].id].lastClickedAt < now

OwnedKinds == {"details", "update", "delete", "analytics"}

\* C21: a details, update, delete or analytics request of an account for
\* the id of a stored link that belongs to another account or to nobody is
\* answered 404 by its lookup step, which ends the request and changes no
\* link, no Click record and no owner counter.
C21_ForeignLinkNotFound ==
    [][\A r \in Slots :
          (/\ req[r].kind \in OwnedKinds
           /\ req[r].pc = "find" /\ req'[r].pc # "find"
           /\ req[r].id \in DOMAIN urls
           /\ urls[req[r].id].user # req[r].user) =>
              /\ req'[r].status = 404
              /\ req'[r].pc = "done"
              /\ urls' = urls
              /\ clicks' = clicks
              /\ users' = users
      ]_vars

\* The other account's delete of a link of the first account and the
\* first account's analytics request for an anonymous link were both
\* answered 404, and both links are still stored.
C21_Witness ==
    \E a, b \in Slots :
        /\ req[a].kind = "delete" /\ req[a].user = OtherUser
        /\ req[a].status = 404
        /\ req[a].id \in DOMAIN urls /\ urls[req[a].id].user \in Users
        /\ req[b].kind = "analytics" /\ req[b].user \in Users
        /\ req[b].status = 404
        /\ req[b].id \in DOMAIN urls /\ urls[req[b].id].user = NoUser

\* The analytics request in slot r has been answered with a report.
Reported(r) ==
    /\ req[r].kind = "analytics"
    /\ req[r].pc = "done"
    /\ req[r].status = 200

\* The stored clicks of the request's link inside its window.
InWindow(r) ==
    {c \in clicks : /\ c.url = req[r].id
                    /\ req[r].start <= c.timestamp
                    /\ c.timestamp <= req[r].end}

\* C22: over an unchanging set of stored clicks, a report for the window
\* [start, end] has summary.totalClicks equal to the number of the link's
\* clicks with start <= timestamp <= end, and clicksByCountry lists at most
\* 10 countries, no country twice, each with its exact count in that
\* window, in non-increasing order of count.
C22_ReportCountsWindow ==
    \A r \in Slots :
        (Reported(r) /\ req[r].start # InvalidDate) =>
            LET byC == req[r].report.clicksByCountry
            IN /\ req[r].report.summary.totalClicks = Cardinality(InWindow(r))
               /\ Len(byC) <= 10
               /\ \A i \in 1..Len(byC) :
                     /\ byC[i].clicks =
                            Cardinality({c \in InWindow(r) : c.country = byC[i]._id})
                     /\ byC[i].clicks > 0
                     /\ \A j \in 1..Len(byC) :
                           /\ i < j => byC[i].clicks >= byC[j].clicks
                           /\ i # j => byC[i]._id # byC[j]._id

\* A report over clicks from more than 10 countries lists 10 of them, the
\* first with more clicks than the last, and clicks outside the window
\* were left out.
C22_Witness ==
    \E r \in Slots :
        /\ Reported(r)
        /\ Cardinality({c.country : c \in InWindow(r)}) > 10
        /\ Len(req[r].report.clicksByCountry) = 10
        /\ req[r].report.clicksByCountry[1].clicks >
               req[r].report.clicksByCountry[10].clicks
        /\ req[r].report.summary.totalClicks < Cardinality(clicks)

RECURSIVE SumCounts(_)
SumCounts(groups) ==
    IF groups = <<>> THEN 0
    ELSE Head(groups).clicks + SumCounts(Tail(groups))

\* C23: in every report summary.totalClicks equals the sum of the counts
\* of clicksByDevice and the sum of the counts of clicksByDate, and
\* recentClicks has min(50, totalClicks) entries, whatever clicks were
\* recorded or deleted while the report was being computed.
C23_ReportPartsAgree ==
    \A r \in Slots :
        Reported(r) =>
            LET total == req[r].report.summary.totalClicks
            IN /\ SumCounts(req[r].report.clicksByDevice) = total
               /\ SumCounts(req[r].report.clicksByDate) = total
               /\ Len(req[r].report.recentClicks) =
                      IF total < 50 THEN total ELSE 50

\* C24: every stored link with a non-null expiration has an expiration
\* strictly later than its creation timestamp.
C24_ExpirationAfterCreation ==
    \A l \in DOMAIN urls :
        urls[l].expiresAt # NoDate => urls[l].expiresAt > urls[l].createdAt

\* C25: no step lowers the click count of a link that stays stored, and
\* no stored click count is negative.
C25_ClicksNeverDecrease ==
    [][\A l \in DOMAIN urls :
          l \in DOMAIN urls' =>
              /\ urls'[l].clicks >= urls[l].clicks
              /\ urls'[l].clicks >= 0
      ]_vars

\* A step of a code generator running in slot r: one iteration of its loop.
GenStep(r) ==
    /\ req[r].pc \in {"generate", "nanoid"}
    /\ req'[r] # req[r]

\* The generator in slot r gave up.
CapacityError(q) ==
    q.err \in {"Unable to generate unique short code",
               "Failed to generate unique short code"}

\* The number of candidates the generator of request q has drawn.
Drawn(q) == IF q.kind = "generate" THEN q.attempts ELSE q.looked

\* A code that is some stored link's short code or alias.
InRegistry(c) ==
    \E l \in DOMAIN urls : urls[l].shortCode = c \/ urls[l].customAlias = c

\* C26: a generator never counts more than a bounded number of attempts
\* (so it terminates), and an iteration changes the code length only by
\* adding one character once 10 collisions have been counted.
C26_LengthKeptForTenCollisions ==
    [][\A r \in Slots : GenStep(r) =>
          /\ req'[r].attempts <= maxAttempts
          /\ req'[r].length # req[r].length =>
                /\ req'[r].length = req[r].length + 1
                /\ req'[r].attempts >= maxAttempts
      ]_vars

\* C27: the iteration in which a generator stops either fails with the
\* capacity error or returns its last candidate, which at that moment is
\* neither the short code nor the alias of a stored link.
C27_NeverReturnsTakenCode ==
    [][\A r \in Slots :
          (GenStep(r) /\ req'[r].pc \notin {"generate", "nanoid"}) =>
              \/ CapacityError(req'[r])
              \/ /\ req'[r].err = ""
                 /\ req'[r].code = req'[r].cand
                 /\ ~InRegistry(req'[r].code)
      ]_vars

\* A create got a generated code after two collisions, and a call of the
\* other generator gave up, in a registry with aliases and generated codes.
C27_Witness ==
    /\ \E l \in DOMAIN urls : urls[l].customAlias # NoCode
    /\ \E a, b \in Slots :
          /\ req[a].kind = "create" /\ req[a].status = 201
          /\ req[a].attempts >= 2 /\ req[a].code.len = DefaultLength + 2
          /\ req[b].kind = "generate" /\ CapacityError(req[b])

\* C30: a generator gives up only after 10 candidates were each looked up
\* and the last one, like the others, was found in the registry; an
\* iteration that draws one of the first 10 candidates and finds it free
\* returns it.
C30_FailsOnlyAfterTenCollisions ==
    [][\A r \in Slots : GenStep(r) =>
          /\ CapacityError(req'[r]) =>
                /\ req'[r].looked = 10
                /\ InRegistry(req'[r].cand)
          /\ (Drawn(req'[r]) <= 10 /\ ~InRegistry(req'[r].cand)) =>
                /\ req'[r].err = ""
                /\ req'[r].code = req'[r].cand
      ]_vars

\* The days a period stands for: 1, 7, 30 or 90 for the four named
\* periods, 7 for a missing period and for any other value.
PeriodDays(period) ==
    CASE period = "24h" -> 1
      [] period = "30d" -> 30
      [] period = "90d" -> 90
      [] OTHER -> 7

\* C28: once an analytics request has found its link at time t, its window
\* is [startDate, endDate] when both were given; otherwise it ends at t and
\* starts the period's days before t, 7 days for a missing or unknown
\* period.
C28_WindowResolved ==
    \A r \in Slots :
        (req[r].kind = "analytics" /\ req[r].doc # None) =>
            LET q == req[r].query
            IN IF q.startDate # NoDate /\ q.endDate # NoDate
               THEN /\ req[r].start = q.startDate
                    /\ req[r].end = q.endDate
               ELSE /\ req[r].end = req[r].at
                    /\ req[r].start =
                           req[r].at - PeriodDays(q.period) * TicksPerDay

\* C29: an owner never holds two links with the same normalized
\* destination, and, no delete being in progress, an owner's link count
\* does not exceed the number of destinations the owner holds a link for.
C29_OneLinkPerDestination ==
    \A u \in Users :
        /\ \A a, b \in LinksOf(u) :
              urls[a].originalUrl = urls[b].originalUrl => a = b
        /\ Over({"delete"}) =>
              users[u].urlsCount <=
                  Cardinality({urls[l].originalUrl : l \in LinksOf(u)})

====
